---- MODULE Spec2Model ----
(***************************************************************************)
(* The resumable sending engine of the AI job application mailer           *)
(* (src/main.py): the blocklist store, the per-sender progress ledger and  *)
(* the send loop of JobApplicationSystem.run_sending_process.              *)
(*                                                                         *)
(* Python strings are modelled as tuples of one-character strings, so that *)
(* str.lower, str.strip, str.split and str.replace are computed and not    *)
(* assumed.  A JSON file is modelled by the record json.load returns for   *)
(* it (json.dump/json.load are lossless on str, int, None and list), by    *)
(* "absent" when the path does not exist, and by "corrupt" when the file   *)
(* was truncated by open(path, 'w') and the dump did not complete.         *)
(***************************************************************************)
EXTENDS Integers, Sequences, FiniteSets, TLC

(* ------------------------------ bounds -------------------------------- *)

\* number of invocations of run_sending_process in one behaviour
MaxRuns == 2

\* number of process crashes in one behaviour
MaxCrashes == 1

(* ----------------------------- strings -------------------------------- *)

\* str.lower on one character
LowerChar(c) ==
  CASE c = "A" -> "a"
    [] c = "B" -> "b"
    [] c = "C" -> "c"
    [] c = "X" -> "x"
    [] c = "Y" -> "y"
    [] c = "Z" -> "z"
    [] OTHER -> c

\* str.lower
StrLower(s) == [k \in 1..Len(s) |-> LowerChar(s[k])]

IsSpace(c) == c = " "

RECURSIVE LStrip(_)
LStrip(s) == IF s # <<>> /\ IsSpace(Head(s)) THEN LStrip(Tail(s)) ELSE s

RECURSIVE RStrip(_)
RStrip(s) ==
  IF s # <<>> /\ IsSpace(s[Len(s)]) THEN RStrip(SubSeq(s, 1, Len(s) - 1)) ELSE s

\* str.strip
StrStrip(s) == RStrip(LStrip(s))

\* c in s
HasChar(s, c) == \E k \in 1..Len(s) : s[k] = c

\* s.split(c)[-1]: what follows the last occurrence of c (all of s without c)
LastField(s, c) ==
  IF HasChar(s, c)
  THEN LET k == CHOOSE j \in 1..Len(s) :
                  s[j] = c /\ \A m \in (j + 1)..Len(s) : s[m] # c
       IN  SubSeq(s, k + 1, Len(s))
  ELSE s

\* s.replace(c, r), r a string
RECURSIVE StrReplace(_, _, _)
StrReplace(s, c, r) ==
  IF s = <<>> THEN <<>>
  ELSE (IF Head(s) = c THEN r ELSE <<Head(s)>>) \o StrReplace(Tail(s), c, r)

\* x in lst
InList(x, lst) == \E k \in 1..Len(lst) : lst[k] = x

\* [e.lower() for e in lst]
LowerAll(lst) == [k \in 1..Len(lst) |-> StrLower(lst[k])]

SeqToSet(lst) == {lst[k] : k \in 1..Len(lst)}

(* ------------------------------ inputs -------------------------------- *)

EmailA == <<"a", "@", "x">>
EmailAUpper == <<"A", "@", "x">>
EmailB == <<"b", "@", "y">>
EmailC == <<"c", "@", "z">>

\* the email column of recipients.csv, in file order
RecipientLists ==
  { <<EmailA, EmailB, EmailC>>,
    <<EmailA, EmailAUpper>> }

\* Gmail addresses given to authenticate_gmail: two accounts that differ in
\* one character of the local part ('.' and '_')
SenderAB == <<"a", ".", "b", "@", "x">>
SenderA_B == <<"a", "_", "b", "@", "x">>

Senders == {SenderAB, SenderA_B}

\* argument lists of add_domains on a manager that a caller keeps
ManagerDomainInputs ==
  { << <<" ", "Y">>, <<"y">>, <<>> >>,
    << <<"x">>, <<"y", " ">> >>,
    << <<" ">>, <<>> >> }

\* argument lists of add_emails on a manager that a caller keeps
ManagerEmailInputs ==
  { << <<"C", "@", "z", " ">>, <<" ">> >>,
    << <<"a", "@", "x">>, <<"A", "@", "x">> >>,
    << <<"y">> >> }

\* arguments of is_blocked: plain, padded and upper-case, two '@', no '@',
\* a trailing '@', the empty string
ManagerQueries ==
  { <<"a", "@", "x">>,
    <<" ", "A", "@", "X", " ">>,
    <<"c", "@", "z">>,
    <<"b", "@", "y">>,
    <<"a", "@", "x", "@", "y">>,
    <<"y", "@", "b">>,
    <<"y">>,
    <<"Y", " ">>,
    <<"a", "@">>,
    <<>> }

\* what the operator types at "Enter domains to block (comma separated)"
DomainInputs == { << <<" ", "Y">>, <<"y">>, <<>> >> }

\* argument lists of add_emails
EmailInputs == { << <<"C", "@", "z", " ">>, <<" ">> >> }

(* --------------------------- BlockedDomainsManager --------------------- *)

EmptyBlocklist == [blocked_domains |-> <<>>, blocked_emails |-> <<>>]

\* BlockedDomainsManager.load on the content of blocked_domains.json
BlocklistLoad(file) == IF file.exists THEN file.data ELSE EmptyBlocklist

RECURSIVE AddNormalized_noDedup(_, _)
\* the loop without the "not in" test
AddNormalized_noDedup(lst, entries) ==
  IF entries = <<>> THEN lst
  ELSE LET e == StrLower(StrStrip(Head(entries)))
       IN  AddNormalized_noDedup(IF e # <<>> THEN Append(lst, e) ELSE lst,
                                 Tail(entries))

RECURSIVE AddNormalized(_, _)
\* the loop of add_domains / add_emails over one of the two lists
AddNormalized(lst, entries) ==
  IF entries = <<>> THEN lst
  ELSE LET e == StrLower(StrStrip(Head(entries)))
       IN  AddNormalized(IF e # <<>> /\ ~InList(e, lst) THEN Append(lst, e) ELSE lst,
                         Tail(entries))

\* is_blocked that takes what follows the first '@' for the domain
is_blocked_firstAt(data, email) ==
  LET e == StrLower(StrStrip(email))
      at == CHOOSE j \in 1..Len(e) : e[j] = "@" /\ \A m \in 1..(j - 1) : e[m] # "@"
      domain == IF HasChar(e, "@") THEN SubSeq(e, at + 1, Len(e)) ELSE <<>>
  IN  InList(e, data.blocked_emails) \/ InList(domain, data.blocked_domains)

\* BlockedDomainsManager.is_blocked
is_blocked(data, email) ==
  LET e == StrLower(StrStrip(email))
      domain == IF HasChar(e, "@") THEN LastField(e, "@") ELSE <<>>
  IN  InList(e, data.blocked_emails) \/ InList(domain, data.blocked_domains)

(* --------------------------- SendingStateManager ----------------------- *)

\* 'state_' + sender_email.replace('@', '_at_').replace('.', '_') + '.json'
StateFilePath(sender_email) ==
  <<"s", "t", "a", "t", "e", "_">>
  \o StrReplace(StrReplace(sender_email, "@", <<"_", "a", "t", "_">>), ".", <<"_">>)
  \o <<".", "j", "s", "o", "n">>

StatePaths == {StateFilePath(s) : s \in Senders}

\* the state load returns when the file does not exist; last_run_date 0 is None
ZeroState == [last_index_sent |-> -1, sent_emails |-> <<>>, last_run_date |-> 0]

AbsentFile == [kind |-> "absent", data |-> ZeroState]
CorruptFile == [kind |-> "corrupt", data |-> ZeroState]
JsonFile(st) == [kind |-> "json", data |-> st]

\* SendingStateManager.load, for a file json.load can parse
StateLoad(file) == IF file.kind = "json" THEN file.data ELSE ZeroState

\* mark_sent that replaces the list instead of appending to it
mark_sent_overwrite(st, index, email) ==
  [st EXCEPT !.last_index_sent = index, !.sent_emails = <<StrLower(email)>>]

\* the in-memory part of SendingStateManager.mark_sent (lines 130-132)
mark_sent(st, index, email) ==
  [st EXCEPT !.last_index_sent = index,
             !.sent_emails =
               IF ~InList(StrLower(email), LowerAll(st.sent_emails))
               THEN Append(st.sent_emails, StrLower(email))
               ELSE st.sent_emails]

\* was_sent without the lower-casing of the email looked up
was_sent_exact(st, email) == InList(email, LowerAll(st.sent_emails))

\* SendingStateManager.was_sent
was_sent(st, email) == InList(StrLower(email), LowerAll(st.sent_emails))

(* ------------------------------ send loop ------------------------------ *)

\* a run that goes on without the recipients file
SourceFound_always(c) == TRUE

\* os.path.exists(CONFIG['RECIPIENTS_CSV'])
SourceFound(c) == c.exists

\* a resume that steps over the recipient after the cursor
StartIndex_skipOne(st) == st.last_index_sent + 2

\* a run that ignores the cursor and starts over
StartIndex_restart(st) == 0

\* start_index = state_mgr.state['last_index_sent'] + 1
StartIndex(st) == st.last_index_sent + 1

\* the skip test without the duplicate check
SkipCond_noDedup(data, st, email) == is_blocked(data, email)

\* the skip test without the blocklist check
SkipCond_noBlock(data, st, email) == was_sent(st, email)

\* the skip test of the loop body
SkipCond(data, st, email) == is_blocked(data, email) \/ was_sent(st, email)

\* a loop that records a failed send like a delivery
AfterSend_markOnFail(result) ==
  CASE result = "True" -> "mark"
    [] result = "QUOTA_ERROR" -> "break"
    [] OTHER -> "mark"

\* a loop that treats a quota error like any other failure
AfterSend_noBreak(result) == IF result = "True" THEN "mark" ELSE "sleep"

\* where the loop body goes after send_email returned result
AfterSend(result) ==
  CASE result = "True" -> "mark"
    [] result = "QUOTA_ERROR" -> "break"
    [] OTHER -> "sleep"

\* a test mode that is not honoured
DryRun_off(tm) == FALSE

\* if test_mode: the loop body previews the content and sends nothing
DryRun(tm) == tm

\* the preview limit of test mode: break when i >= start_index + 2
TestModeBreak(idx, start) == idx >= start + 2

SendResults == {"True", "QUOTA_ERROR", "False"}

NoPos == -1

VARIABLES
  csv,          \* recipients.csv: [exists, rows]
  probe,        \* the last call made on a BlockedDomainsManager kept by a caller
  blockFile,    \* blocked_domains.json: [exists, data]
  ledgerFiles,  \* state_<sender>.json, by path
  pc,           \* position of the process in run_sending_process
  sender,       \* self.sender_email of the running process
  test_mode,    \* the test_mode argument
  blocked,      \* blocked_mgr.data
  state,        \* state_mgr.state
  start_index,  \* start_index
  i,            \* the loop variable
  now,          \* the clock datetime.now() reads
  crashes,      \* crashes so far
  cur,          \* what the current (or last) run did; of a crashed run only
                \* where it crashed
  prev,         \* what the run before it did
  delivered,    \* per sender and lower-cased address: send_email returned True
  lost,         \* per sender and lower-cased address: crashes between a True
                \* result and the end of the save of mark_sent
  prior,        \* the ledger file as it was when mark_sent was entered
  marked        \* per sender: the emails mark_sent has returned for

vars == <<probe, csv, blockFile, ledgerFiles, pc, sender, test_mode, blocked, state,
          start_index, i, now, crashes, cur, prev, delivered, lost, prior, marked>>

\* no call made yet on the manager
NoProbe == [op |-> "none", arg |-> <<>>, result |-> FALSE]

Addresses == UNION {SeqToSet(LowerAll(l)) : l \in RecipientLists}

NoRun ==
  [run |-> 0, id |-> <<>>, status |-> "none", first |-> NoPos,
   evaluated |-> {}, contentReq |-> {}, deliveryAtt |-> {}, failed |-> {},
   slept |-> {}, quotaPos |-> NoPos, sentAtStart |-> {}, crashAt |-> "none"]

NoPrev ==
  [id |-> <<>>, status |-> "none", failed |-> {}, quotaPos |-> NoPos,
   endCursor |-> NoPos, crashAt |-> "none"]

Init ==
  /\ csv \in {[exists |-> FALSE, rows |-> <<>>]}
             \cup {[exists |-> TRUE, rows |-> l] : l \in RecipientLists}
  /\ blockFile = [exists |-> FALSE, data |-> EmptyBlocklist]
  /\ probe = NoProbe
  /\ ledgerFiles = [p \in StatePaths |-> AbsentFile]
  /\ pc = "idle"
  /\ sender = <<>>
  /\ test_mode = FALSE
  /\ blocked = EmptyBlocklist
  /\ state = ZeroState
  /\ start_index = 0
  /\ i = 0
  /\ now = 1
  /\ crashes = 0
  /\ cur = NoRun
  /\ prev = NoPrev
  /\ delivered = [s \in Senders |-> [a \in Addresses |-> 0]]
  /\ lost = [s \in Senders |-> [a \in Addresses |-> 0]]
  /\ prior = AbsentFile
  /\ marked = [s \in Senders |-> {}]

(* ----------------------- blocklist management -------------------------- *)

\* a bound of the model: the operator edits the blocklist before the first
\* run of a behaviour, never between two runs
BeforeFirstRun == cur.run = 0

\* main: blocked_mgr = BlockedDomainsManager(); blocked_mgr.add_domains(domains)
AddDomains(domains) ==
  /\ pc = "idle"
  /\ BeforeFirstRun
  /\ LET data == BlocklistLoad(blockFile)
     IN  blockFile' =
           [exists |-> TRUE,
            data |-> [data EXCEPT !.blocked_domains = AddNormalized(@, domains)]]
  /\ UNCHANGED <<probe, csv, ledgerFiles, pc, sender, test_mode, blocked, state,
                 start_index, i, now, crashes, cur, prev, delivered, lost, prior, marked>>

\* BlockedDomainsManager().add_emails(emails)
AddEmails(emails) ==
  /\ pc = "idle"
  /\ BeforeFirstRun
  /\ LET data == BlocklistLoad(blockFile)
     IN  blockFile' =
           [exists |-> TRUE,
            data |-> [data EXCEPT !.blocked_emails = AddNormalized(@, emails)]]
  /\ UNCHANGED <<probe, csv, ledgerFiles, pc, sender, test_mode, blocked, state,
                 start_index, i, now, crashes, cur, prev, delivered, lost, prior, marked>>

(* ------------- one BlockedDomainsManager kept by its caller ------------ *)

\* In this part blocked is self.data of a manager that was built while the
\* file was absent and that serves every call.

\* blocked_mgr.add_domains(domains): lines 84-89, save included
add_domains(domains) ==
  /\ pc = "idle"
  /\ blocked' = [blocked EXCEPT !.blocked_domains = AddNormalized(@, domains)]
  /\ blockFile' = [exists |-> TRUE, data |-> blocked']
  /\ probe' = [op |-> "add_domains", arg |-> domains, result |-> FALSE]
  /\ UNCHANGED <<csv, ledgerFiles, pc, sender, test_mode, state,
                 start_index, i, now, crashes, cur, prev, delivered, lost, prior, marked>>

\* blocked_mgr.add_emails(emails): lines 91-96, save included
add_emails(emails) ==
  /\ pc = "idle"
  /\ blocked' = [blocked EXCEPT !.blocked_emails = AddNormalized(@, emails)]
  /\ blockFile' = [exists |-> TRUE, data |-> blocked']
  /\ probe' = [op |-> "add_emails", arg |-> emails, result |-> FALSE]
  /\ UNCHANGED <<csv, ledgerFiles, pc, sender, test_mode, state,
                 start_index, i, now, crashes, cur, prev, delivered, lost, prior, marked>>

\* blocked_mgr.is_blocked(email): lines 98-103
IsBlockedCall(email) ==
  /\ pc = "idle"
  /\ probe' = [op |-> "is_blocked", arg |-> <<email>>,
               result |-> is_blocked(blocked, email)]
  /\ UNCHANGED <<csv, blockFile, ledgerFiles, pc, sender, test_mode, blocked, state,
                 start_index, i, now, crashes, cur, prev, delivered, lost, prior, marked>>

NextManager ==
  \/ \E domains \in ManagerDomainInputs : add_domains(domains)
  \/ \E emails \in ManagerEmailInputs : add_emails(emails)
  \/ \E email \in ManagerQueries : IsBlockedCall(email)

SpecManager == Init /\ [][NextManager]_vars

(* ------------------------ run_sending_process -------------------------- *)

\* between two invocations the operator moves recipients.csv away, so that
\* the next os.path.exists(CONFIG['RECIPIENTS_CSV']) is false; rows keeps the
\* list the earlier runs went over, which no later step reads
RecipientsRemoved ==
  /\ pc = "idle"
  /\ csv.exists
  /\ cur.run >= 1
  /\ cur.run < MaxRuns
  /\ csv' = [csv EXCEPT !.exists = FALSE]
  /\ UNCHANGED <<probe, blockFile, ledgerFiles, pc, sender, test_mode, blocked, state,
                 start_index, i, now, crashes, cur, prev, delivered, lost, prior, marked>>

Path == StateFilePath(sender)
Email == csv.rows[i + 1]
FileCursor(file) == StateLoad(file).last_index_sent

\* the record of a run that begins: the run before it becomes prev
Begin(s, status) ==
  /\ pc = "idle"
  /\ cur.run < MaxRuns
  /\ prev' = IF cur.run = 0 THEN NoPrev
             ELSE [id |-> cur.id, status |-> cur.status, failed |-> cur.failed,
                   quotaPos |-> cur.quotaPos, crashAt |-> cur.crashAt,
                   endCursor |-> FileCursor(ledgerFiles[StateFilePath(cur.id)])]
  /\ cur' = [NoRun EXCEPT
              !.run = cur.run + 1, !.id = s, !.status = status,
              !.sentAtStart =
                SeqToSet(LowerAll(StateLoad(ledgerFiles[StateFilePath(s)]).sent_emails))]

\* the process is gone: its memory with it
Exit ==
  /\ pc' = "idle"
  /\ sender' = <<>>
  /\ test_mode' = FALSE
  /\ blocked' = EmptyBlocklist
  /\ state' = ZeroState
  /\ start_index' = 0
  /\ i' = 0

\* lines 358-360: "Gmail service not authenticated."
StartRunNotAuthenticated(s) ==
  /\ pc = "idle"
  /\ s \in Senders
  /\ UNCHANGED vars

\* lines 364-366: recipients.csv not found
StartRunNoSource(s) ==
  /\ ~SourceFound(csv)
  /\ Begin(s, "NoSource")
  /\ UNCHANGED <<probe, csv, blockFile, ledgerFiles, pc, sender, test_mode, blocked,
                 state, start_index, i, now, crashes, delivered, lost, prior, marked>>

\* line 370: json.load raises on a truncated ledger file and the process dies
StartRunLoadError(s) ==
  /\ SourceFound(csv)
  /\ ledgerFiles[StateFilePath(s)].kind = "corrupt"
  /\ Begin(s, "LoadError")
  /\ UNCHANGED <<probe, csv, blockFile, ledgerFiles, pc, sender, test_mode, blocked,
                 state, start_index, i, now, crashes, delivered, lost, prior, marked>>

\* lines 368-373: the managers are built and the loop is entered
StartRun(s, tm) ==
  /\ SourceFound(csv)
  /\ ledgerFiles[StateFilePath(s)].kind # "corrupt"
  /\ Begin(s, "running")
  /\ LET st == StateLoad(ledgerFiles[StateFilePath(s)])
     IN  /\ state' = st
         /\ start_index' = StartIndex(st)
         /\ i' = StartIndex(st)
  /\ blocked' = BlocklistLoad(blockFile)
  /\ sender' = s
  /\ test_mode' = tm
  /\ pc' = "loop"
  /\ UNCHANGED <<probe, csv, blockFile, ledgerFiles, now, crashes, delivered, lost, prior, marked>>

\* the loop body runs for position i
Evaluated(c) ==
  [c EXCEPT !.evaluated = @ \cup {i},
            !.first = IF @ = NoPos THEN i ELSE @]

\* line 375: range(start_index, len(df)) is exhausted
LoopEnd ==
  /\ pc = "loop"
  /\ i >= Len(csv.rows)
  /\ cur' = [cur EXCEPT !.status = "Completed"]
  /\ Exit
  /\ UNCHANGED <<probe, csv, blockFile, ledgerFiles, now, crashes, prev, delivered, lost, prior, marked>>

\* lines 379-381: blocked or duplicate
Skip ==
  /\ pc = "loop"
  /\ i < Len(csv.rows)
  /\ SkipCond(blocked, state, Email)
  /\ cur' = Evaluated(cur)
  /\ i' = i + 1
  /\ UNCHANGED <<probe, csv, blockFile, ledgerFiles, pc, sender, test_mode, blocked, state,
                 start_index, now, crashes, prev, delivered, lost, prior, marked>>

\* lines 385-388: generate_email_content returned None
ContentFailed ==
  /\ pc = "loop"
  /\ i < Len(csv.rows)
  /\ ~SkipCond(blocked, state, Email)
  /\ cur' = [Evaluated(cur) EXCEPT !.contentReq = @ \cup {i}, !.failed = @ \cup {i}]
  /\ i' = i + 1
  /\ UNCHANGED <<probe, csv, blockFile, ledgerFiles, pc, sender, test_mode, blocked, state,
                 start_index, now, crashes, prev, delivered, lost, prior, marked>>

\* lines 385-397: content generated in test mode, no break
ContentPreview ==
  /\ pc = "loop"
  /\ i < Len(csv.rows)
  /\ ~SkipCond(blocked, state, Email)
  /\ DryRun(test_mode)
  /\ ~TestModeBreak(i, start_index)
  /\ cur' = [Evaluated(cur) EXCEPT !.contentReq = @ \cup {i}]
  /\ i' = i + 1
  /\ UNCHANGED <<probe, csv, blockFile, ledgerFiles, pc, sender, test_mode, blocked, state,
                 start_index, now, crashes, prev, delivered, lost, prior, marked>>

\* lines 385-396: content generated in test mode, the preview limit is reached
ContentPreviewBreak ==
  /\ pc = "loop"
  /\ i < Len(csv.rows)
  /\ ~SkipCond(blocked, state, Email)
  /\ DryRun(test_mode)
  /\ TestModeBreak(i, start_index)
  /\ cur' = [Evaluated(cur) EXCEPT !.contentReq = @ \cup {i}, !.status = "PreviewLimit"]
  /\ Exit
  /\ UNCHANGED <<probe, csv, blockFile, ledgerFiles, now, crashes, prev, delivered, lost, prior, marked>>

\* lines 385-390: content generated, not test mode
ContentOk ==
  /\ pc = "loop"
  /\ i < Len(csv.rows)
  /\ ~SkipCond(blocked, state, Email)
  /\ ~DryRun(test_mode)
  /\ cur' = [Evaluated(cur) EXCEPT !.contentReq = @ \cup {i}]
  /\ pc' = "send"
  /\ UNCHANGED <<probe, csv, blockFile, ledgerFiles, sender, test_mode, blocked, state,
                 start_index, i, now, crashes, prev, delivered, lost, prior, marked>>

\* lines 399-408: send_email and the branch on its result
SendEmail(result) ==
  /\ pc = "send"
  /\ delivered' = IF result = "True"
                  THEN [delivered EXCEPT ![sender][StrLower(Email)] = @ + 1]
                  ELSE delivered
  /\ LET c == [cur EXCEPT
                  !.deliveryAtt = @ \cup {i},
                  !.failed = IF result = "False" THEN @ \cup {i} ELSE @,
                  !.quotaPos = IF result = "QUOTA_ERROR" THEN i ELSE @]
     IN  IF AfterSend(result) = "break"
         THEN /\ cur' = [c EXCEPT !.status = "StoppedQuota"]
              /\ Exit
         ELSE /\ cur' = c
              /\ pc' = AfterSend(result)
              /\ UNCHANGED <<sender, test_mode, blocked, state, start_index, i>>
  /\ UNCHANGED <<probe, csv, blockFile, ledgerFiles, now, crashes, prev, lost, prior, marked>>

\* lines 130-132: mark_sent updates the state in memory
MarkSent ==
  /\ pc = "mark"
  /\ state' = mark_sent(state, i, Email)
  /\ prior' = ledgerFiles[Path]
  /\ pc' = "save"
  /\ UNCHANGED <<probe, csv, blockFile, ledgerFiles, sender, test_mode, blocked,
                 start_index, i, now, crashes, cur, prev, delivered, lost, marked>>

\* lines 125-126: save stamps last_run_date; open(path, 'w') truncates the file
SaveOpen ==
  /\ pc = "save"
  /\ state' = [state EXCEPT !.last_run_date = now]
  /\ now' = now + 1
  /\ ledgerFiles' = [ledgerFiles EXCEPT ![Path] = CorruptFile]
  /\ pc' = "dump"
  /\ UNCHANGED <<probe, csv, blockFile, sender, test_mode, blocked, start_index, i,
                 crashes, cur, prev, delivered, lost, prior, marked>>

\* line 127 and the end of the with block: the dump is written and flushed
SaveDump ==
  /\ pc = "dump"
  /\ ledgerFiles' = [ledgerFiles EXCEPT ![Path] = JsonFile(state)]
  /\ marked' = [marked EXCEPT ![sender] = @ \cup {Email}]
  /\ pc' = "sleep"
  /\ UNCHANGED <<probe, csv, blockFile, sender, test_mode, blocked, state, start_index, i,
                 now, crashes, cur, prev, delivered, lost, prior>>

\* line 410: time.sleep(2), then the next iteration
Sleep ==
  /\ pc = "sleep"
  /\ cur' = [cur EXCEPT !.slept = @ \cup {i}]
  /\ i' = i + 1
  /\ pc' = "loop"
  /\ UNCHANGED <<probe, csv, blockFile, ledgerFiles, sender, test_mode, blocked, state,
                 start_index, now, crashes, prev, delivered, lost, prior, marked>>

InMarkSent == pc \in {"mark", "save", "dump"}

\* where a crash hits: "marked" is the sleep that follows a returned mark_sent
CrashPoint == IF pc = "sleep" /\ i \notin cur.failed THEN "marked" ELSE pc

\* the process is killed (power loss, SIGKILL) wherever it is in the run
Crash ==
  /\ pc # "idle"
  /\ crashes < MaxCrashes
  /\ crashes' = crashes + 1
  /\ cur' = [NoRun EXCEPT !.run = cur.run, !.id = cur.id, !.status = "Crashed",
                           !.crashAt = CrashPoint, !.sentAtStart = cur.sentAtStart]
  /\ lost' = IF InMarkSent
             THEN [lost EXCEPT ![sender][StrLower(Email)] = @ + 1]
             ELSE lost
  /\ Exit
  /\ UNCHANGED <<probe, csv, blockFile, ledgerFiles, now, prev, delivered, prior, marked>>

Next ==
  \/ \E d \in DomainInputs : AddDomains(d)
  \/ \E e \in EmailInputs : AddEmails(e)
  \/ RecipientsRemoved
  \/ \E s \in Senders : StartRunNotAuthenticated(s)
  \/ \E s \in Senders : StartRunNoSource(s)
  \/ \E s \in Senders : StartRunLoadError(s)
  \/ \E s \in Senders, tm \in BOOLEAN : StartRun(s, tm)
  \/ LoopEnd
  \/ Skip
  \/ ContentFailed
  \/ ContentPreview
  \/ ContentPreviewBreak
  \/ ContentOk
  \/ \E r \in SendResults : SendEmail(r)
  \/ MarkSent
  \/ SaveOpen
  \/ SaveDump
  \/ Sleep
  \/ Crash

Spec == Init /\ [][Next]_vars

(* ---------------- runs whose calls all return, no kill ----------------- *)

\* a step of the process inside run_sending_process
RunStep ==
  \/ LoopEnd
  \/ Skip
  \/ ContentFailed
  \/ ContentPreview
  \/ ContentPreviewBreak
  \/ ContentOk
  \/ \E r \in SendResults : SendEmail(r)
  \/ MarkSent
  \/ SaveOpen
  \/ SaveDump
  \/ Sleep

NextReturning ==
  \/ \E d \in DomainInputs : AddDomains(d)
  \/ \E e \in EmailInputs : AddEmails(e)
  \/ RecipientsRemoved
  \/ \E s \in Senders : StartRunNotAuthenticated(s)
  \/ \E s \in Senders : StartRunNoSource(s)
  \/ \E s \in Senders, tm \in BOOLEAN : StartRun(s, tm)
  \/ RunStep

\* every call of the loop body returns and the process is not killed: a
\* started run keeps taking steps
SpecReturning == Init /\ [][NextReturning]_vars /\ WF_vars(RunStep)

(* ------------------------------ claims --------------------------------- *)

Ended == {"Completed", "StoppedQuota", "PreviewLimit"}

\* the run in cur follows, for the same sender, a run that ended by itself
NextRunSameSender == cur.run >= 2 /\ prev.id = cur.id /\ prev.status \in Ended

LedgerOf(s) == ledgerFiles[StateFilePath(s)]

AllEmails == UNION {SeqToSet(l) : l \in RecipientLists}

\* the case variants of an email
Variants(e) == {v \in AllEmails : StrLower(v) = StrLower(e)}

SentSet(st) == SeqToSet(LowerAll(st.sent_emails))

\* C1 (as claimed): whatever crashes cut runs short, send_email returns True
\* at most once per sender for an address, compared case-insensitively.
C1_DeliveredAtMostOnce ==
  \A s \in Senders : \A a \in Addresses : delivered[s][a] <= 1

\* C1 (amended): send_email returns True for an address at most once, plus
\* once for every crash that hit between a True result for that address and
\* the end of the save of its mark_sent.
C1_DeliveredOncePerLoss ==
  \A s \in Senders : \A a \in Addresses : delivered[s][a] <= 1 + lost[s][a]

\* a restarted run after a crash re-evaluates a delivered address and skips it
C1_Witness ==
  /\ crashes = 1
  /\ cur.run = 2
  /\ cur.status = "Completed"
  /\ \E p \in cur.evaluated :
       /\ delivered[cur.id][StrLower(csv.rows[p + 1])] = 1
       /\ lost[cur.id][StrLower(csv.rows[p + 1])] = 0
       /\ p \notin cur.contentReq

\* C2: a recipient that is_blocked holds for when it is processed gets no
\* content-generation request and no delivery attempt in that run.
C2_BlockedNeverProcessed ==
  pc # "idle" =>
    \A p \in cur.contentReq \cup cur.deliveryAtt : ~is_blocked(blocked, csv.rows[p + 1])

\* a run that skipped a blocked recipient and went on to deliver to another
C2_Witness ==
  /\ pc # "idle"
  /\ \E p \in cur.evaluated :
       is_blocked(blocked, csv.rows[p + 1]) /\ p \notin cur.contentReq
  /\ cur.deliveryAtt # {}

\* C3 (as claimed): a position whose content generation failed or whose
\* delivery returned Failed is evaluated again by the next run of the same
\* sender over the same list, here a next run that reached the end of the list.
C3_FailedRetriedNextRun ==
  (NextRunSameSender /\ cur.status = "Completed") => prev.failed \subseteq cur.evaluated

\* C4 (as claimed): after a quota stop at position k the first position the
\* next run of the same sender evaluates is k.
C4_QuotaPositionFirst ==
  (NextRunSameSender /\ prev.status = "StoppedQuota" /\ cur.first # NoPos)
    => cur.first = prev.quotaPos

\* C4 (amended): after a quota stop at position k the next run of the same
\* sender starts at cursor + 1, a position at or before k: it evaluates no
\* position after k before k, and k first only when k - 1 is the cursor.
C4_ResumeAtCursor ==
  (NextRunSameSender /\ prev.status = "StoppedQuota" /\ cur.first # NoPos)
    => /\ cur.first = prev.endCursor + 1
       /\ cur.first <= prev.quotaPos

\* the next run after a quota stop at k starts before k
C4_Witness ==
  /\ NextRunSameSender
  /\ prev.status = "StoppedQuota"
  /\ cur.first # NoPos
  /\ prev.endCursor >= 0
  /\ cur.first < prev.quotaPos

\* C5: a QuotaExceeded result at position k ends the run at once: k is not
\* marked sent (the cursor stays below k, its address out of sent_emails),
\* there is no delay after it, and no position after k gets a content request
\* or a delivery attempt in that run.
C5_QuotaHalts ==
  cur.quotaPos # NoPos =>
    /\ pc = "idle"
    /\ cur.status = "StoppedQuota"
    /\ \A p \in cur.evaluated \cup cur.contentReq \cup cur.deliveryAtt : p <= cur.quotaPos
    /\ cur.quotaPos \notin cur.slept
    /\ FileCursor(LedgerOf(cur.id)) < cur.quotaPos
    /\ ~was_sent(StateLoad(LedgerOf(cur.id)), csv.rows[cur.quotaPos + 1])

\* a quota stop at a position that has positions after it and one delivered before it
C5_Witness ==
  /\ cur.status = "StoppedQuota"
  /\ cur.quotaPos + 1 < Len(csv.rows)
  /\ FileCursor(LedgerOf(cur.id)) >= 0
  /\ FileCursor(LedgerOf(cur.id)) \in cur.deliveryAtt

\* C6 (as claimed): after a crash anywhere in mark_sent the ledger file holds
\* the complete prior state or a complete updated state, never a partial one.
C6_MarkSentCrashAtomic ==
  (cur.status = "Crashed" /\ cur.crashAt \in {"mark", "save", "dump"})
    => (LedgerOf(cur.id) = prior \/ LedgerOf(cur.id).kind = "json")

\* C7: a run makes no delivery attempt for a recipient whose address was in
\* sent_emails when the run started; so a second run over the same list and
\* ledger delivers nothing to the recipients the ledger holds.
C7_NoResendOfSent ==
  \A p \in cur.deliveryAtt : StrLower(csv.rows[p + 1]) \notin cur.sentAtStart

\* the run after an ended run evaluates a recipient the ledger holds and skips it
C7_Witness ==
  /\ NextRunSameSender
  /\ cur.status = "Completed"
  /\ \E p \in cur.evaluated :
       /\ StrLower(csv.rows[p + 1]) \in cur.sentAtStart
       /\ p \notin cur.contentReq

C8_Recorded ==
  /\ \A s \in Senders : \A e \in marked[s] : \A v \in Variants(e) :
       /\ LedgerOf(s).kind # "corrupt" => was_sent(StateLoad(LedgerOf(s)), v)
       /\ (pc # "idle" /\ sender = s) => was_sent(state, v)
  /\ (pc \in {"save", "dump"} \/ (pc = "sleep" /\ i \notin cur.failed)) =>
       \A v \in Variants(Email) : was_sent(state, v)

C8_Grows ==
  /\ (pc # "idle" /\ pc' # "idle") => SentSet(state) \subseteq SentSet(state')
  /\ \A p \in StatePaths :
       (ledgerFiles'[p] # ledgerFiles[p] /\ ledgerFiles'[p].kind = "json") =>
         SentSet(StateLoad(prior)) \subseteq SentSet(ledgerFiles'[p].data)

C9_Step ==
  /\ (pc = "mark" /\ pc' = "save") =>
       /\ state'.last_index_sent > state.last_index_sent
       /\ state.last_index_sent = FileCursor(ledgerFiles[Path])
  /\ \A p \in StatePaths :
       (ledgerFiles'[p] # ledgerFiles[p] /\ ledgerFiles'[p].kind = "json") =>
         FileCursor(ledgerFiles'[p]) > FileCursor(prior)
  /\ (pc = "idle" /\ pc' = "loop") =>
       state'.last_index_sent = FileCursor(ledgerFiles[StateFilePath(sender')])

\* C9: last_index_sent never decreases: every mark_sent of the loop sets it
\* above the value it had in memory and in the file, every file written has a
\* cursor above the file it replaces, and a run starts from the file's cursor.
C9_CursorIncreases == [][C9_Step]_vars

\* a mark_sent of a second run has raised a cursor an earlier run had set
C9_Witness ==
  /\ pc = "sleep"
  /\ cur.run = 2
  /\ FileCursor(prior) >= 0
  /\ FileCursor(ledgerFiles[Path]) > FileCursor(prior)

\* C10 (as claimed): the ledgers of distinct senders are apart: the stored
\* sent_emails of a sender hold only addresses marked sent by runs for that
\* sender, so a load for it never returns what was written for another.
C10_NoCrossContamination ==
  \A b \in Senders :
    LedgerOf(b).kind = "json" =>
      SentSet(LedgerOf(b).data) \subseteq {StrLower(e) : e \in marked[b]}

\* C11: a run that follows, for the same sender and list, a run interrupted
\* right after position k was marked sent starts at k + 1 = cursor + 1: it
\* evaluates, requests content for and delivers to no position at or before
\* k, and position k + 1 is the first it takes a decision for.
C11_ResumeAfterMark ==
  (cur.run >= 2 /\ prev.id = cur.id /\ prev.status = "Crashed"
     /\ prev.crashAt = "marked" /\ cur.status # "Crashed")
    => /\ prev.endCursor >= 0
       /\ \A p \in cur.evaluated \cup cur.contentReq \cup cur.deliveryAtt :
            p > prev.endCursor
       /\ cur.first # NoPos => cur.first = prev.endCursor + 1
       /\ (pc = "loop" /\ cur.evaluated = {}) => i = prev.endCursor + 1
       /\ (cur.status = "Completed" /\ prev.endCursor + 1 < Len(csv.rows))
            => prev.endCursor + 1 \in cur.evaluated

\* the resumed run has requested content for position k + 1
C11_Witness ==
  /\ cur.run >= 2
  /\ prev.id = cur.id
  /\ prev.status = "Crashed"
  /\ prev.crashAt = "marked"
  /\ prev.endCursor + 1 \in cur.contentReq

C12_DryStep ==
  test_mode =>
    /\ ledgerFiles' = ledgerFiles
    /\ delivered' = delivered
    /\ marked' = marked
    /\ pc' \in {"loop", "idle"}
    /\ pc' = "loop" => state' = state

\* C12: a run in test mode never calls send_email and never calls mark_sent:
\* no step of it changes a ledger file or the state in memory.
C12_DryRunLeavesLedger ==
  /\ [](test_mode => (pc = "loop" /\ cur.deliveryAtt = {}
                       /\ state = StateLoad(LedgerOf(sender))))
  /\ [][C12_DryStep]_vars

\* a dry run over a ledger that holds a delivery has previewed a recipient
C12_Witness ==
  /\ test_mode
  /\ cur.contentReq # {}
  /\ FileCursor(LedgerOf(sender)) >= 0

\* the run in cur began on an empty ledger and an empty blocklist, went over
\* every row, and every content request and every delivery succeeded
C13_AllSucceeded ==
  /\ cur.status = "Completed"
  /\ cur.sentAtStart = {}
  /\ cur.first = 0
  /\ BlocklistLoad(blockFile) = EmptyBlocklist
  /\ csv.exists
  /\ \A j, k \in 1..Len(csv.rows) :
       StrLower(csv.rows[j]) = StrLower(csv.rows[k]) => j = k
  /\ cur.contentReq = 0..(Len(csv.rows) - 1)
  /\ cur.deliveryAtt = cur.contentReq
  /\ cur.failed = {}

\* C13: from an empty ledger and an empty blocklist, a run over n rows with
\* distinct emails in which every content request and every delivery
\* succeeds ends with cursor n - 1 and with sent_emails holding exactly the
\* n lower-cased emails.
C13_FullRunLedger ==
  C13_AllSucceeded =>
    /\ LedgerOf(cur.id).kind = "json"
    /\ LedgerOf(cur.id).data.last_index_sent = Len(csv.rows) - 1
    /\ LedgerOf(cur.id).data.sent_emails = LowerAll(csv.rows)
    /\ SentSet(LedgerOf(cur.id).data) = SeqToSet(LowerAll(csv.rows))

\* the three-row list was delivered in full: cursor 2
C13_Witness ==
  /\ C13_AllSucceeded
  /\ Len(csv.rows) = 3
  /\ FileCursor(LedgerOf(cur.id)) = 2

\* trimmed, then lower-cased
C14_Norm(email) == StrLower(StrStrip(email))

\* the positions of '@' in s
C14_Ats(s) == {k \in 1..Len(s) : s[k] = "@"}

\* what follows the last '@' of s; empty when s has no '@'
C14_Domain(s) ==
  IF C14_Ats(s) = {} THEN <<>>
  ELSE LET last == CHOOSE k \in C14_Ats(s) : \A m \in C14_Ats(s) : m <= k
       IN  [j \in 1..(Len(s) - last) |-> s[last + j]]

\* C14: is_blocked(email) is true exactly when the trimmed, lower-cased
\* address is in blocked_emails or what follows its last '@' is in
\* blocked_domains; an address without '@' has the empty domain, so no
\* non-empty blocked domain blocks it.
C14_IsBlockedExact ==
  probe.op = "is_blocked" =>
    LET e == C14_Norm(probe.arg[1])
        inEmails == e \in SeqToSet(blocked.blocked_emails)
        inDomains == C14_Domain(e) \in SeqToSet(blocked.blocked_domains)
    IN  /\ probe.result = (inEmails \/ inDomains)
        /\ (C14_Ats(e) = {} /\ <<>> \notin SeqToSet(blocked.blocked_domains))
             => probe.result = inEmails

\* an address with two '@' was found blocked through the domain after the
\* last one, with no blocked email equal to it
C14_Witness ==
  /\ probe.op = "is_blocked"
  /\ Cardinality(C14_Ats(C14_Norm(probe.arg[1]))) = 2
  /\ probe.result
  /\ C14_Norm(probe.arg[1]) \notin SeqToSet(blocked.blocked_emails)

C15_Normal(lst) ==
  /\ \A j, k \in 1..Len(lst) : lst[j] = lst[k] => j = k
  /\ \A k \in 1..Len(lst) :
       /\ lst[k] # <<>>
       /\ \A m \in 1..Len(lst[k]) : lst[k][m] = LowerChar(lst[k][m])
       /\ ~IsSpace(lst[k][1])
       /\ ~IsSpace(lst[k][Len(lst[k])])

\* every entry of the call is blank or already in the list
C15_NothingNew(entries, lst) ==
  \A k \in 1..Len(entries) :
    \/ \A m \in 1..Len(entries[k]) : IsSpace(entries[k][m])
    \/ C14_Norm(entries[k]) \in SeqToSet(lst)

C15_Step ==
  /\ probe'.op = "add_domains"
       => /\ blocked'.blocked_emails = blocked.blocked_emails
          /\ C15_NothingNew(probe'.arg, blocked.blocked_domains)
               => blocked'.blocked_domains = blocked.blocked_domains
  /\ probe'.op = "add_emails"
       => /\ blocked'.blocked_domains = blocked.blocked_domains
          /\ C15_NothingNew(probe'.arg, blocked.blocked_emails)
               => blocked'.blocked_emails = blocked.blocked_emails
  /\ probe'.op \in {"add_domains", "add_emails"}
       => (blockFile'.exists /\ blockFile'.data = blocked')

\* C15: from an absent blocklist file, after any sequence of add_domains and
\* add_emails calls both lists hold no duplicate and only trimmed,
\* lower-cased, non-blank entries; a call whose entries are all blank or
\* already present leaves both lists as they were; after every call the
\* file equals the lists in memory.
C15_BlocklistNormalised ==
  /\ [](/\ C15_Normal(blocked.blocked_domains)
        /\ C15_Normal(blocked.blocked_emails)
        /\ BlocklistLoad(blockFile) = blocked)
  /\ [][C15_Step]_vars

\* a call of add_domains passed more entries than the list now holds: a
\* blank or a repeated entry was dropped
C15_Witness ==
  /\ probe.op = "add_domains"
  /\ blocked.blocked_domains # <<>>
  /\ Len(probe.arg) > Len(blocked.blocked_domains)
  /\ blockFile.exists

C16_Step ==
  (cur'.run = cur.run + 1 /\ ~csv.exists) =>
    /\ pc' = "idle"
    /\ cur'.status = "NoSource"
    /\ cur'.evaluated = {}
    /\ cur'.contentReq = {}
    /\ cur'.deliveryAtt = {}
    /\ ledgerFiles' = ledgerFiles
    /\ delivered' = delivered
    /\ marked' = marked

\* C16: an invocation of run_sending_process while recipients.csv is absent
\* ends at once: no recipient is evaluated, no content is requested, nothing
\* is delivered, and no ledger file is created or changed.
C16_NoSourceNoEffect ==
  /\ [](cur.status = "NoSource" =>
          (pc = "idle" /\ cur.evaluated = {} /\ cur.contentReq = {}
             /\ cur.deliveryAtt = {}))
  /\ [][C16_Step]_vars

\* a run found no recipients file while the sender's ledger held a delivery
C16_Witness ==
  /\ cur.status = "NoSource"
  /\ FileCursor(LedgerOf(cur.id)) >= 0

C17_OneTerminalState ==
  /\ (cur.status = "StoppedQuota") = (cur.quotaPos # NoPos)
  /\ cur.status = "StoppedQuota" => pc = "idle"
  /\ cur.status = "Completed" =>
       /\ pc = "idle"
       /\ cur.quotaPos = NoPos
       /\ (csv.exists /\ cur.first # NoPos)
            => cur.evaluated = cur.first..(Len(csv.rows) - 1)

\* C17: a run that is not a dry run, over a finite list and with calls that
\* all return, ends, and ends in one of two ways: stopped for quota exactly
\* when a send returned QUOTA_ERROR, completed exactly when the loop went
\* through the end of the list with no QUOTA_ERROR.
C17_RunEnds ==
  /\ [](C17_OneTerminalState)
  /\ (pc # "idle" /\ ~test_mode)
       ~> (pc = "idle" /\ cur.status \in {"Completed", "StoppedQuota"})

\* a run went through the whole list although one delivery failed
C17_Witness ==
  /\ cur.status = "Completed"
  /\ cur.failed # {}
  /\ cur.deliveryAtt # {}
  /\ csv.exists
  /\ Len(csv.rows) - 1 \in cur.evaluated

\* C18: in a run that sends, every recipient for which content was requested
\* and after which the loop went on to a later position was followed by the
\* delay, whether its outcome was a content failure, a delivery or a
\* failed delivery.
C18_DelayAfterProcessed ==
  (pc # "idle" /\ ~test_mode) =>
    \A p \in cur.contentReq : p < i => p \in cur.slept

\* the ledger file changes, or the state in memory of a running process does
C19_LedgerChanges ==
  \/ ledgerFiles' # ledgerFiles
  \/ (pc # "idle" /\ pc' # "idle" /\ state' # state)

\* position i got a delivery attempt whose result was True
C19_DeliveredHere ==
  /\ i \in cur.deliveryAtt
  /\ i \notin cur.failed
  /\ cur.quotaPos # i
  /\ delivered[sender][StrLower(Email)] >= 1

C19_Step == C19_LedgerChanges => (InMarkSent /\ C19_DeliveredHere)

\* C19: only a delivery changes the ledger: a recipient that is skipped,
\* whose content fails, whose send fails or whose send hits the quota
\* leaves last_index_sent, sent_emails, last_run_date and the ledger file
\* as they were.
C19_OnlyDeliveredMutates == [][C19_Step]_vars

\* a send failed, and the loop reached the delay, over a ledger that holds
\* a delivery and still equals the state in memory
C19_Witness ==
  /\ pc = "sleep"
  /\ i \in cur.deliveryAtt
  /\ i \in cur.failed
  /\ FileCursor(ledgerFiles[Path]) >= 0
  /\ ledgerFiles[Path] = JsonFile(state)

\* the addresses for which send_email returned True in a run for sender b
C20_DeliveredUnder(b) == {a \in Addresses : delivered[b][a] >= 1}

\* the ledger st of sender b holds only deliveries made under b
C20_Sound(b, st) ==
  /\ SentSet(st) \subseteq C20_DeliveredUnder(b)
  /\ \/ st.last_index_sent = NoPos
     \/ ~csv.exists
     \/ /\ st.last_index_sent < Len(csv.rows)
        /\ StrLower(csv.rows[st.last_index_sent + 1]) \in C20_DeliveredUnder(b)

\* C20: in runs started from an empty ledger, every address in the
\* sent_emails that a run of a sender holds in memory or has on file is the lower-cased email of a recipient that a
\* send under this sender delivered to, the cursor is -1 or the position of
\* such a recipient, and mark_sent(i, e) runs only right after send_email
\* returned True for position i and email e.
C20_LedgerSound ==
  /\ pc # "idle" => C20_Sound(sender, state)
  /\ (cur.run >= 1 /\ LedgerOf(cur.id).kind = "json")
       => C20_Sound(cur.id, LedgerOf(cur.id).data)
  /\ InMarkSent =>
       /\ i \in cur.deliveryAtt
       /\ i \notin cur.failed
       /\ cur.quotaPos # i
       /\ delivered[sender][StrLower(Email)] >= 1

====
